---- MODULE Spec2Model ----
(***************************************************************************)
(* Model of pkg/security/auth.go: the authentication hooks built per       *)
(* connection (UserAuthCertHook, UserAuthPasswordHook, ProtoAuthHook) and  *)
(* the identity extraction they rest on (GetCertificateUser).              *)
(*                                                                         *)
(* A connection builds one hook from its security mode and its handshake   *)
(* result or credentials, and then invokes the hook once per request.      *)
(* Errors are modelled by their messages: a sequence holding the literal   *)
(* parts of the format string and the formatted arguments, in order.       *)
(***************************************************************************)
EXTENDS Integers, Sequences, FiniteSets, TLC

\* Largest number of peer certificates (and of verified chains) in a handshake.
MaxCerts == 2
\* Largest number of requests checked on one connection.
MaxCalls == 2

NodeUser == "node"
RootUser == "root"

\* Usernames a request may claim; "" is the absent username.
Users == {"", NodeUser, RootUser, "alice", "bob"}
\* Subject common names a peer certificate may carry.
CommonNames == {"", NodeUser, RootUser, "alice"}
\* Plaintext passwords a session may supply.
Passwords == {"", "pw1", "pw2"}

nil == <<>>

RECURSIVE SeqsUpTo(_, _)
SeqsUpTo(S, n) ==
  IF n = 0 THEN {<<>>}
  ELSE LET shorter == SeqsUpTo(S, n - 1)
       IN  shorter \cup {Append(s, x) : s \in {t \in shorter : Len(t) = n - 1}, x \in S}

Certificates == {[Subject |-> [CommonName |-> cn]] : cn \in CommonNames}

\* A *tls.ConnectionState: isNil is the nil pointer; of VerifiedChains only
\* the length is ever read.
NilState == [isNil |-> TRUE, PeerCertificates |-> <<>>, VerifiedChains |-> 0]
ConnectionStates ==
  {NilState} \cup
  {[isNil |-> FALSE, PeerCertificates |-> pcs, VerifiedChains |-> n] :
      pcs \in SeqsUpTo(Certificates, MaxCerts), n \in 0..MaxCerts}

\* Stored hashes: absent, malformed, or the hash of some password.
HashOf(p) == <<"bcrypt", p>>
Hashes == {<<>>, <<"malformed">>} \cup {HashOf(p) : p \in Passwords}

\* proto.Message values: those implementing RequestWithUser, and one that
\* does not.
NoRequest == [type |-> "none", user |-> ""]
OtherRequest == [type |-> "OtherRequest", user |-> ""]
Requests == {[type |-> "UserRequest", user |-> u] : u \in Users} \cup {OtherRequest}

ImplementsRequestWithUser(request) == request.type = "UserRequest"
GetUser(request) == request.user
\* %T and %s of a request.
TypeName(request) == request.type
RequestString(request) == <<"user:", request.user>>

----
\* compareHashAndPassword: nil when the hash is the hash of the password.
compareHashAndPassword(hashedPassword, password) ==
  IF hashedPassword = HashOf(password) THEN nil
  ELSE <<"crypto/bcrypt: hashedPassword is not the hash of the given password">>

GetCertificateUserNoChainCheck(tlsState) ==
  IF tlsState.isNil
    THEN [user |-> "", err |-> <<"request is not using TLS">>]
  ELSE IF Len(tlsState.PeerCertificates) = 0
    THEN [user |-> "", err |-> <<"no client certificates in request">>]
  ELSE [user |-> tlsState.PeerCertificates[1].Subject.CommonName, err |-> nil]

GetCertificateUser(tlsState) ==
  IF tlsState.isNil
    THEN [user |-> "", err |-> <<"request is not using TLS">>]
  ELSE IF Len(tlsState.PeerCertificates) = 0
    THEN [user |-> "", err |-> <<"no client certificates in request">>]
  ELSE IF tlsState.VerifiedChains # Len(tlsState.PeerCertificates)
    THEN [user |-> "", err |-> <<"client cerficates not verified">>]
  ELSE [user |-> tlsState.PeerCertificates[1].Subject.CommonName, err |-> nil]

UserAuthCertHookAlwaysExtract(insecureMode, tlsState) ==
  LET r == GetCertificateUser(tlsState)
  IN  IF r.err # nil
        THEN [built |-> FALSE, certUser |-> "", err |-> r.err]
        ELSE [built |-> TRUE, certUser |-> r.user, err |-> nil]

\* The build step of UserAuthCertHook: the certUser the closure captures, or
\* the build error.
UserAuthCertHook(insecureMode, tlsState) ==
  IF ~insecureMode
    THEN LET r == GetCertificateUser(tlsState)
         IN  IF r.err # nil
               THEN [built |-> FALSE, certUser |-> "", err |-> r.err]
               ELSE [built |-> TRUE, certUser |-> r.user, err |-> nil]
    ELSE [built |-> TRUE, certUser |-> "", err |-> nil]

CertHookNoMismatchCheck(insecureMode, certUser, requestedUser, clientConnection) ==
  IF Len(requestedUser) = 0
    THEN <<"user is missing">>
  ELSE IF ~clientConnection /\ requestedUser # NodeUser
    THEN <<"user ", requestedUser, " is not allowed">>
  ELSE nil

CertHookNoNodeException(insecureMode, certUser, requestedUser, clientConnection) ==
  IF Len(requestedUser) = 0
    THEN <<"user is missing">>
  ELSE IF ~clientConnection /\ requestedUser # NodeUser
    THEN <<"user ", requestedUser, " is not allowed">>
  ELSE IF insecureMode
    THEN nil
  ELSE IF ~(certUser = requestedUser)
    THEN <<"requested user is ", requestedUser, ", but certificate is for ", certUser>>
  ELSE nil

CertHookMismatchFirst(insecureMode, certUser, requestedUser, clientConnection) ==
  IF Len(requestedUser) = 0
    THEN <<"user is missing">>
  ELSE IF ~insecureMode /\ ~(certUser = NodeUser \/ certUser = requestedUser)
    THEN <<"requested user is ", requestedUser, ", but certificate is for ", certUser>>
  ELSE IF ~clientConnection /\ requestedUser # NodeUser
    THEN <<"user ", requestedUser, " is not allowed">>
  ELSE nil

\* The closure returned by UserAuthCertHook, over its captured insecureMode
\* and certUser.
CertHook(insecureMode, certUser, requestedUser, clientConnection) ==
  IF Len(requestedUser) = 0
    THEN <<"user is missing">>
  ELSE IF ~clientConnection /\ requestedUser # NodeUser
    THEN <<"user ", requestedUser, " is not allowed">>
  ELSE IF insecureMode
    THEN nil
  ELSE IF ~(certUser = NodeUser \/ certUser = requestedUser)
    THEN <<"requested user is ", requestedUser, ", but certificate is for ", certUser>>
  ELSE nil

\* The build step of ProtoAuthHook: that of the user hook it wraps.
ProtoAuthHook(insecureMode, tlsState) == UserAuthCertHook(insecureMode, tlsState)

ProtoHookDropsCause(insecureMode, certUser, request, clientConnection) ==
  IF ~ImplementsRequestWithUser(request)
    THEN <<"unknown request type: ", TypeName(request)>>
  ELSE LET err == CertHook(insecureMode, certUser, GetUser(request), clientConnection)
       IN  IF err # nil
             THEN <<"error in request: ">> \o RequestString(request)
             ELSE nil

\* The closure returned by ProtoAuthHook, over the user hook's captures.
ProtoHook(insecureMode, certUser, request, clientConnection) ==
  IF ~ImplementsRequestWithUser(request)
    THEN <<"unknown request type: ", TypeName(request)>>
  ELSE LET err == CertHook(insecureMode, certUser, GetUser(request), clientConnection)
       IN  IF err # nil
             THEN err \o <<" error in request: ">> \o RequestString(request)
             ELSE nil

PasswordHookNoRootCheck(insecureMode, password, hashedPassword, requestedUser, clientConnection) ==
  IF Len(requestedUser) = 0
    THEN <<"user is missing">>
  ELSE IF ~clientConnection
    THEN <<"password authentication is only available for client connections">>
  ELSE IF insecureMode
    THEN nil
  ELSE IF Len(password) = 0 \/ compareHashAndPassword(hashedPassword, password) # nil
    THEN <<"invalid password">>
  ELSE nil

PasswordHookInsecureFirst(insecureMode, password, hashedPassword, requestedUser, clientConnection) ==
  IF Len(requestedUser) = 0
    THEN <<"user is missing">>
  ELSE IF insecureMode
    THEN nil
  ELSE IF ~clientConnection
    THEN <<"password authentication is only available for client connections">>
  ELSE IF requestedUser = RootUser
    THEN <<"user ", RootUser, " must authenticate using a client certificate ">>
  ELSE IF Len(password) = 0 \/ compareHashAndPassword(hashedPassword, password) # nil
    THEN <<"invalid password">>
  ELSE nil

PasswordHookNoEmptyCheck(insecureMode, password, hashedPassword, requestedUser, clientConnection) ==
  IF Len(requestedUser) = 0
    THEN <<"user is missing">>
  ELSE IF ~clientConnection
    THEN <<"password authentication is only available for client connections">>
  ELSE IF insecureMode
    THEN nil
  ELSE IF requestedUser = RootUser
    THEN <<"user ", RootUser, " must authenticate using a client certificate ">>
  ELSE IF compareHashAndPassword(hashedPassword, password) # nil
    THEN <<"invalid password">>
  ELSE nil

\* The closure returned by UserAuthPasswordHook, over its captured
\* insecureMode, password and hashedPassword.
PasswordHook(insecureMode, password, hashedPassword, requestedUser, clientConnection) ==
  IF Len(requestedUser) = 0
    THEN <<"user is missing">>
  ELSE IF ~clientConnection
    THEN <<"password authentication is only available for client connections">>
  ELSE IF insecureMode
    THEN nil
  ELSE IF requestedUser = RootUser
    THEN <<"user ", RootUser, " must authenticate using a client certificate ">>
  ELSE IF Len(password) = 0 \/ compareHashAndPassword(hashedPassword, password) # nil
    THEN <<"invalid password">>
  ELSE nil

----
\* The failure kinds, read off the leading literal parts of a message.
IsNoTLS(err) == Len(err) >= 1 /\ err[1] = "request is not using TLS"
IsNoPeerCertificate(err) == Len(err) >= 1 /\ err[1] = "no client certificates in request"
IsUnverifiedCertificate(err) == Len(err) >= 1 /\ err[1] = "client cerficates not verified"
IsMissingUser(err) == Len(err) >= 1 /\ err[1] = "user is missing"
IsNodeOnlyViolation(err) == Len(err) >= 3 /\ err[1] = "user " /\ err[3] = " is not allowed"
IsIdentityMismatch(err) == Len(err) >= 1 /\ err[1] = "requested user is "
IsClientOnly(err) ==
  Len(err) >= 1 /\ err[1] = "password authentication is only available for client connections"
IsRootRequiresCertificate(err) ==
  Len(err) >= 3 /\ err[1] = "user " /\ err[2] = RootUser
    /\ err[3] = " must authenticate using a client certificate "
IsInvalidCredentials(err) == Len(err) >= 1 /\ err[1] = "invalid password"
IsUnsupportedRequestType(err) == Len(err) >= 1 /\ err[1] = "unknown request type: "

Kind(err) ==
  IF err = nil THEN "Success"
  ELSE IF IsNoTLS(err) THEN "NoTLS"
  ELSE IF IsNoPeerCertificate(err) THEN "NoPeerCertificate"
  ELSE IF IsUnverifiedCertificate(err) THEN "UnverifiedCertificate"
  ELSE IF IsMissingUser(err) THEN "MissingUser"
  ELSE IF IsNodeOnlyViolation(err) THEN "NodeOnlyViolation"
  ELSE IF IsIdentityMismatch(err) THEN "IdentityMismatch"
  ELSE IF IsClientOnly(err) THEN "ClientOnly"
  ELSE IF IsRootRequiresCertificate(err) THEN "RootRequiresCertificate"
  ELSE IF IsInvalidCredentials(err) THEN "InvalidCredentials"
  ELSE IF IsUnsupportedRequestType(err) THEN "UnsupportedRequestType"
  ELSE "Other"

----
VARIABLES
  pc,              \* "init", "built" or "failed": the connection's hook
  builder,         \* "none", "cert", "password" or "proto": which hook was asked for
  insecureMode,    \* the security mode, captured by every hook
  tlsState,        \* the handshake result given to the builder
  certUser,        \* captured by the certificate hook
  password,        \* captured by the password hook
  hashedPassword,  \* captured by the password hook
  buildErr,        \* the builder's error, nil when it built a hook
  calls,           \* number of invocations of the hook so far
  firstCall,       \* arguments and outcome of the first invocation
  lastCall         \* arguments and outcome of the latest invocation

vars == <<pc, builder, insecureMode, tlsState, certUser, password, hashedPassword,
          buildErr, calls, firstCall, lastCall>>

captured == <<insecureMode, certUser, password, hashedPassword>>
connection == <<pc, builder, tlsState, buildErr>>

NoCall == [request |-> NoRequest, user |-> "", clientConnection |-> FALSE, err |-> nil]

Init ==
  /\ pc = "init"
  /\ builder = "none"
  /\ insecureMode = FALSE
  /\ tlsState = NilState
  /\ certUser = ""
  /\ password = ""
  /\ hashedPassword = <<>>
  /\ buildErr = nil
  /\ calls = 0
  /\ firstCall = NoCall
  /\ lastCall = NoCall

\* userHook, err := UserAuthCertHook(insecureMode, tlsState)
BuildCertHook(mode, state) ==
  /\ pc = "init"
  /\ LET r == UserAuthCertHook(mode, state)
     IN  /\ pc' = IF r.built THEN "built" ELSE "failed"
         /\ certUser' = r.certUser
         /\ buildErr' = r.err
  /\ builder' = "cert"
  /\ insecureMode' = mode
  /\ tlsState' = state
  /\ UNCHANGED <<password, hashedPassword, calls, firstCall, lastCall>>

\* hook, err := ProtoAuthHook(insecureMode, tlsState)
BuildProtoHook(mode, state) ==
  /\ pc = "init"
  /\ LET r == ProtoAuthHook(mode, state)
     IN  /\ pc' = IF r.built THEN "built" ELSE "failed"
         /\ certUser' = r.certUser
         /\ buildErr' = r.err
  /\ builder' = "proto"
  /\ insecureMode' = mode
  /\ tlsState' = state
  /\ UNCHANGED <<password, hashedPassword, calls, firstCall, lastCall>>

\* userHook := UserAuthPasswordHook(insecureMode, password, hashedPassword)
BuildPasswordHook(mode, pw, hash) ==
  /\ pc = "init"
  /\ pc' = "built"
  /\ builder' = "password"
  /\ insecureMode' = mode
  /\ password' = pw
  /\ hashedPassword' = hash
  /\ buildErr' = nil
  /\ UNCHANGED <<tlsState, certUser, calls, firstCall, lastCall>>

Record(call) ==
  /\ calls' = calls + 1
  /\ lastCall' = call
  /\ firstCall' = IF calls = 0 THEN call ELSE firstCall

InvokeCertHookRemembersUser(requestedUser, clientConnection) ==
  /\ pc = "built"
  /\ builder = "cert"
  /\ calls < MaxCalls
  /\ Record([request |-> NoRequest, user |-> requestedUser,
             clientConnection |-> clientConnection,
             err |-> CertHook(insecureMode, certUser, requestedUser, clientConnection)])
  /\ certUser' = IF certUser = "" THEN requestedUser ELSE certUser
  /\ UNCHANGED <<insecureMode, password, hashedPassword, connection>>

\* err := userHook(requestedUser, clientConnection), on a certificate hook
InvokeCertHook(requestedUser, clientConnection) ==
  /\ pc = "built"
  /\ builder = "cert"
  /\ calls < MaxCalls
  /\ Record([request |-> NoRequest, user |-> requestedUser,
             clientConnection |-> clientConnection,
             err |-> CertHook(insecureMode, certUser, requestedUser, clientConnection)])
  /\ UNCHANGED <<captured, connection>>

\* err := userHook(requestedUser, clientConnection), on a password hook
InvokePasswordHook(requestedUser, clientConnection) ==
  /\ pc = "built"
  /\ builder = "password"
  /\ calls < MaxCalls
  /\ Record([request |-> NoRequest, user |-> requestedUser,
             clientConnection |-> clientConnection,
             err |-> PasswordHook(insecureMode, password, hashedPassword,
                                  requestedUser, clientConnection)])
  /\ UNCHANGED <<captured, connection>>

\* err := hook(request, clientConnection), on a request hook
InvokeProtoHook(request, clientConnection) ==
  /\ pc = "built"
  /\ builder = "proto"
  /\ calls < MaxCalls
  /\ Record([request |-> request, user |-> GetUser(request),
             clientConnection |-> clientConnection,
             err |-> ProtoHook(insecureMode, certUser, request, clientConnection)])
  /\ UNCHANGED <<captured, connection>>

Next ==
  \/ \E mode \in BOOLEAN, state \in ConnectionStates : BuildCertHook(mode, state)
  \/ \E mode \in BOOLEAN, state \in ConnectionStates : BuildProtoHook(mode, state)
  \/ \E mode \in BOOLEAN, pw \in Passwords, hash \in Hashes : BuildPasswordHook(mode, pw, hash)
  \/ \E u \in Users, c \in BOOLEAN : InvokeCertHook(u, c)
  \/ \E u \in Users, c \in BOOLEAN : InvokePasswordHook(u, c)
  \/ \E r \in Requests, c \in BOOLEAN : InvokeProtoHook(r, c)

Spec == Init /\ [][Next]_vars

----
Called == calls > 0
CertCalled == builder = "cert" /\ Called
PasswordCalled == builder = "password" /\ Called
ProtoCalled == builder = "proto" /\ Called

Args(call) == <<call.request, call.user, call.clientConnection>>

\* C1 as stated: on a password hook, in every mode, a client request
\* claiming root fails with RootRequiresCertificate.
C1_RootFailsInEveryMode ==
  (PasswordCalled /\ lastCall.user = RootUser /\ lastCall.clientConnection)
    => IsRootRequiresCertificate(lastCall.err)

\* C1 amended: on a password hook, a client request claiming root fails
\* with RootRequiresCertificate in secure mode, whatever the password and the
\* stored hash; in insecure mode it succeeds.
C1_RootFailsInSecureMode ==
  (PasswordCalled /\ lastCall.user = RootUser /\ lastCall.clientConnection)
    => IF insecureMode THEN lastCall.err = nil
       ELSE IsRootRequiresCertificate(lastCall.err)

C1_Witness ==
  /\ PasswordCalled /\ ~insecureMode
  /\ lastCall.user = RootUser /\ lastCall.clientConnection
  /\ password # "" /\ hashedPassword = HashOf(password)
  /\ IsRootRequiresCertificate(lastCall.err)

\* C2 as stated: a secure certificate hook whose certUser is not node
\* succeeds iff the claimed user equals certUser on a client connection.
C2_SelfOnlyAsStated ==
  (CertCalled /\ ~insecureMode /\ certUser # NodeUser)
    => (lastCall.err = nil <=> (lastCall.user = certUser /\ lastCall.clientConnection))

\* C2 amended: a secure certificate hook whose certUser is not node
\* succeeds iff the claimed user is non-empty and equals certUser on a client
\* connection.
C2_SelfOnlyNonEmpty ==
  (CertCalled /\ ~insecureMode /\ certUser # NodeUser)
    => (lastCall.err = nil <=>
          (lastCall.user # "" /\ lastCall.user = certUser /\ lastCall.clientConnection))

C2_Witness ==
  /\ CertCalled /\ ~insecureMode /\ certUser = "alice"
  /\ lastCall.user = "alice" /\ lastCall.clientConnection
  /\ lastCall.err = nil

\* C3: a secure certificate hook whose certUser is node succeeds, on a
\* client connection, for every non-empty claimed user and, on a non-client
\* connection, for the claimed user node only.
C3_NodeCertificate ==
  (CertCalled /\ ~insecureMode /\ certUser = NodeUser)
    => (lastCall.err = nil <=>
          IF lastCall.clientConnection THEN lastCall.user # ""
          ELSE lastCall.user = NodeUser)

C3_Witness ==
  /\ CertCalled /\ ~insecureMode /\ certUser = NodeUser
  /\ lastCall.user = "alice" /\ lastCall.clientConnection
  /\ lastCall.err = nil

\* C4: in insecure mode the certificate hook builds for every handshake
\* result, captures no identity, and succeeds exactly when the claimed user
\* is non-empty and the connection is a client one or the claimed user is
\* node, whatever the handshake result was.
C4_InsecureIgnoresHandshake ==
  (builder = "cert" /\ insecureMode)
    => /\ pc = "built" /\ buildErr = nil /\ certUser = ""
       /\ Called => (lastCall.err = nil <=>
                       (lastCall.user # "" /\
                          (lastCall.clientConnection \/ lastCall.user = NodeUser)))

C4_Witness ==
  /\ CertCalled /\ insecureMode
  /\ GetCertificateUser(tlsState).err # nil
  /\ lastCall.user = "alice" /\ lastCall.clientConnection
  /\ lastCall.err = nil

\* C5: on a password hook, in every mode and for every password and stored
\* hash, a non-empty claimed user on a non-client connection fails with
\* ClientOnly.
C5_PasswordClientOnly ==
  (PasswordCalled /\ lastCall.user # "" /\ ~lastCall.clientConnection)
    => IsClientOnly(lastCall.err)

C5_Witness ==
  /\ PasswordCalled /\ insecureMode
  /\ lastCall.user = "alice" /\ ~lastCall.clientConnection
  /\ IsClientOnly(lastCall.err)

\* C6: in secure mode UserAuthCertHook fails with NoTLS without a
\* handshake, else with NoPeerCertificate without certificates, else with
\* UnverifiedCertificate when the verified chains are not as many as the
\* certificates; otherwise it builds and certUser is the common name of the
\* first certificate.
C6_SecureBuild ==
  (builder = "cert" /\ ~insecureMode)
    => IF tlsState.isNil
         THEN pc = "failed" /\ IsNoTLS(buildErr)
       ELSE IF Len(tlsState.PeerCertificates) = 0
         THEN pc = "failed" /\ IsNoPeerCertificate(buildErr)
       ELSE IF tlsState.VerifiedChains # Len(tlsState.PeerCertificates)
         THEN pc = "failed" /\ IsUnverifiedCertificate(buildErr)
       ELSE /\ pc = "built" /\ buildErr = nil
            /\ certUser = tlsState.PeerCertificates[1].Subject.CommonName

C6_Witness ==
  /\ builder = "cert" /\ ~insecureMode
  /\ ~tlsState.isNil
  /\ Len(tlsState.PeerCertificates) = 2 /\ tlsState.VerifiedChains = 1
  /\ pc = "failed" /\ IsUnverifiedCertificate(buildErr)

\* C7: ProtoAuthHook fails to build exactly when UserAuthCertHook does, with
\* its error; the hook it builds fails with UnsupportedRequestType on a
\* request without GetUser, and otherwise succeeds iff the certificate hook
\* succeeds on (request.GetUser(), clientConnection) and fails with the
\* certificate hook's failure kind.
C7_AdapterFollowsCertHook ==
  (builder = "proto")
    => /\ pc = (IF UserAuthCertHook(insecureMode, tlsState).built THEN "built" ELSE "failed")
       /\ buildErr = UserAuthCertHook(insecureMode, tlsState).err
       /\ Called =>
            IF ~ImplementsRequestWithUser(lastCall.request)
              THEN IsUnsupportedRequestType(lastCall.err)
            ELSE LET d == CertHook(insecureMode, certUser,
                                   GetUser(lastCall.request), lastCall.clientConnection)
                 IN  /\ lastCall.err = nil <=> d = nil
                     /\ Kind(lastCall.err) = Kind(d)
                     /\ Kind(d) \in {"Success", "MissingUser", "NodeOnlyViolation",
                                     "IdentityMismatch"}

C7_Witness ==
  /\ ProtoCalled /\ ~insecureMode /\ certUser = "alice"
  /\ lastCall.request = [type |-> "UserRequest", user |-> "bob"]
  /\ lastCall.clientConnection
  /\ IsIdentityMismatch(lastCall.err)
  /\ lastCall.err # CertHook(insecureMode, certUser, "bob", TRUE)

\* C8: invoking a built hook changes nothing it captured, and an invocation
\* with the arguments of the first invocation has the first invocation's
\* outcome.
C8_NoHiddenState ==
  [][ /\ pc = "built" => captured' = captured
      /\ (calls' > 0 /\ Args(lastCall') = Args(firstCall'))
           => lastCall'.err = firstCall'.err ]_vars

C8_Witness ==
  /\ builder \in {"cert", "password"}
  /\ calls >= 2
  /\ Args(lastCall) = Args(firstCall)
  /\ lastCall.err = firstCall.err

\* C9: the certificate hook reports the first failing check in the order
\* MissingUser, NodeOnlyViolation, IdentityMismatch: an empty claimed user
\* is MissingUser, a non-empty claimed user other than node on a non-client
\* connection is NodeOnlyViolation in every mode and for every certUser, and
\* IdentityMismatch occurs only in secure mode past both checks.
C9_CheckOrder ==
  CertCalled
    => /\ lastCall.user = "" => IsMissingUser(lastCall.err)
       /\ (lastCall.user # "" /\ ~lastCall.clientConnection /\ lastCall.user # NodeUser)
            => IsNodeOnlyViolation(lastCall.err)
       /\ IsIdentityMismatch(lastCall.err)
            => /\ ~insecureMode
               /\ lastCall.user # ""
               /\ lastCall.clientConnection \/ lastCall.user = NodeUser

C9_Witness ==
  /\ CertCalled /\ ~insecureMode /\ certUser = "alice"
  /\ lastCall.user = "alice" /\ ~lastCall.clientConnection
  /\ IsNodeOnlyViolation(lastCall.err)

\* C10: in secure mode the password hook succeeds iff the claimed user is
\* non-empty and not root, the connection is a client one, the password is
\* non-empty and the hash comparison accepts it; past the user and connection
\* checks, an empty password and a rejected password both fail with the same
\* InvalidCredentials error.
C10_SecurePassword ==
  (PasswordCalled /\ ~insecureMode)
    => LET accepted == compareHashAndPassword(hashedPassword, password) = nil
           eligible == /\ lastCall.user # "" /\ lastCall.user # RootUser
                       /\ lastCall.clientConnection
       IN  /\ lastCall.err = nil <=> (eligible /\ password # "" /\ accepted)
           /\ (eligible /\ (password = "" \/ ~accepted))
                => (IsInvalidCredentials(lastCall.err) /\ lastCall.err = <<"invalid password">>)

C10_Witness ==
  /\ PasswordCalled /\ ~insecureMode
  /\ password = "" /\ compareHashAndPassword(hashedPassword, password) = nil
  /\ lastCall.user = "alice" /\ lastCall.clientConnection
  /\ IsInvalidCredentials(lastCall.err)

====
